---- MODULE Spec2Model ----
(***************************************************************************)
(* Model of egui-viscanvas (src/src/lib.rs): the per-frame viewport state  *)
(* machine of vis_canvas (load -> show_body -> store), the draw loop over  *)
(* the content list, the inverse transform screen_to_canvas and the        *)
(* constructor PiecewiseSegment::new.                                      *)
(*                                                                         *)
(* Numbers.  The source computes in f32.  Every number of the model is an  *)
(* integer counting multiples of 1/Unit (1.0 is Unit, 0.5 is Unit \div 2). *)
(* The inputs are drawn from values on that grid, and a frame is modelled  *)
(* only when each of its products lies on the grid again (`exact`), so     *)
(* every sum and product of a modelled frame is exact in f32 as well: the  *)
(* magnitudes stay far below 2^24 grid steps.  Quotients (the inverse      *)
(* transform) are kept as reduced fractions with the IEEE outcomes of a    *)
(* division by zero (NaN, +inf, -inf).                                     *)
(***************************************************************************)
EXTENDS Integers, Sequences, FiniteSets, TLC

\* ---------------------------------------------------------------- bounds
\* Grid resolution: values are multiples of 1/Unit.
Unit == 4
\* Number of vis_canvas calls (frames) in a run.
MaxFrames == 2
\* Longest point list handed to PiecewiseSegment::new.
MaxPts == 4

\* ------------------------------------------------------ program constants
SCROLL_SPEED == 1
ZOOM_SPEED == 1
\* is_valid: 0.0 <= current_scale <= 10.0
MIN_SCALE == 0
MAX_SCALE == 10
\* is_valid: -100000.0 <= shift.x, shift.y <= 100000.0
MAX_SHIFT == 100000

\* ------------------------------------------------------------- arithmetic
\* The f32 with whole value n.
Fx(n) == n * Unit

\* f32 product of two grid values (exact when Exact(a, b)).
Mul(a, b) == (a * b) \div Unit

Exact(a, b) == (a * b) % Unit = 0

Vec2(x, y) == [x |-> x, y |-> y]

VAdd(a, b) == [x |-> a.x + b.x, y |-> a.y + b.y]

VSub(a, b) == [x |-> a.x - b.x, y |-> a.y - b.y]

\* Vec2 * f32
VScale(a, k) == [x |-> Mul(a.x, k), y |-> Mul(a.y, k)]

\* Vec2 * Vec2 (componentwise)
VMul(a, b) == [x |-> Mul(a.x, b.x), y |-> Mul(a.y, b.y)]

Abs(n) == IF n < 0 THEN -n ELSE n

RECURSIVE Gcd(_, _)
Gcd(a, b) == IF b = 0 THEN a ELSE Gcd(b, a % b)

\* The f32 quotient n / (sgn * mag), mag >= 0, sgn the sign bit of the divisor
\* (a divisor -0.0 has mag = 0, sgn = -1): a reduced fraction, or the IEEE
\* outcome of a division by zero.
Quot(n, mag, sgn) ==
    IF mag = 0
    THEN IF n = 0 THEN [k |-> "NaN"]
         ELSE [k |-> IF (n > 0) = (sgn > 0) THEN "+inf" ELSE "-inf"]
    ELSE LET g == Gcd(Abs(n), mag)
         IN [k |-> "num", n |-> (sgn * n) \div g, d |-> mag \div g]

\* The grid value v as a fraction.
Frac(v) == Quot(v, Unit, 1)

\* f32 ==: NaN equals nothing.
FEq(a, b) == a.k # "NaN" /\ b.k # "NaN" /\ a = b

FVec(v) == [x |-> Frac(v.x), y |-> Frac(v.y)]

FVecEq(a, b) == FEq(a.x, b.x) /\ FEq(a.y, b.y)

\* ------------------------------------------------------------ data model
Origins == {"TopLeft", "BottomLeft"}

Ids == {1, 2}

\* impl Default for VisCanvasStateInner
Default == [origin |-> "TopLeft", current_scale |-> Fx(1), shift |-> Vec2(0, 0)]

current_scale_vec(st) ==
    IF st.origin = "TopLeft"
    THEN Vec2(st.current_scale, st.current_scale)
    ELSE Vec2(st.current_scale, -st.current_scale)

\* is_valid with the scale bounded below strictly.
is_valid_positive_scale(st) ==
    /\ Fx(MIN_SCALE) < st.current_scale
    /\ st.current_scale <= Fx(MAX_SCALE)
    /\ -Fx(MAX_SHIFT) <= st.shift.x
    /\ st.shift.x <= Fx(MAX_SHIFT)
    /\ -Fx(MAX_SHIFT) <= st.shift.y
    /\ st.shift.y <= Fx(MAX_SHIFT)

\* is_valid without the upper bound of the scale.
is_valid_no_scale_max(st) ==
    /\ Fx(MIN_SCALE) <= st.current_scale
    /\ -Fx(MAX_SHIFT) <= st.shift.x
    /\ st.shift.x <= Fx(MAX_SHIFT)
    /\ -Fx(MAX_SHIFT) <= st.shift.y
    /\ st.shift.y <= Fx(MAX_SHIFT)

is_valid(st) ==
    /\ Fx(MIN_SCALE) <= st.current_scale
    /\ st.current_scale <= Fx(MAX_SCALE)
    /\ -Fx(MAX_SHIFT) <= st.shift.x
    /\ st.shift.x <= Fx(MAX_SHIFT)
    /\ -Fx(MAX_SHIFT) <= st.shift.y
    /\ st.shift.y <= Fx(MAX_SHIFT)

\* (v / current_scale_vec()): the divisor's y component is -current_scale
\* under BottomLeft, so it is -0.0 when the scale is 0.
DivByScaleVec(v, st) ==
    [x |-> Quot(v.x, st.current_scale, 1),
     y |-> Quot(v.y, st.current_scale, IF st.origin = "TopLeft" THEN 1 ELSE -1)]

\* VisCanvasState::screen_to_canvas: the assertion fails on scale 0.
screen_to_canvas(st, screen_pos) ==
    IF st.current_scale = 0
    THEN [panic |-> TRUE]
    ELSE [panic |-> FALSE, pos |-> DivByScaleVec(VSub(screen_pos, st.shift), st)]

\* The forward transform every show method applies to a canvas point:
\* painter.clip_rect().min + (p * current_scale_vec() + shift).
ToScreen(clip_min, p, st) ==
    VAdd(clip_min, VAdd(VMul(p, current_scale_vec(st)), st.shift))

\* ------------------------------------------------------------- contents
\* The loop of PiecewiseSegment::new stopping one segment early.
RECURSIVE PushSegments_short(_, _, _)
PushSegments_short(points, i, data) ==
    IF i > Len(points) - 2
    THEN data
    ELSE PushSegments_short(points, i + 1,
                            Append(data, [start |-> points[i], end |-> points[i + 1]]))

\* PiecewiseSegment::new: the loop `for i in 0..points.len() - 1` pushing
\* SegmentData { start: points[i], end: points[i + 1] } (1-based here).
RECURSIVE PushSegments(_, _, _)
PushSegments(points, i, data) ==
    IF i > Len(points) - 1
    THEN data
    ELSE PushSegments(points, i + 1,
                      Append(data, [start |-> points[i], end |-> points[i + 1]]))

PiecewiseSegment_new(points) ==
    IF Len(points) < 2
    THEN [some |-> FALSE]
    ELSE [some |-> TRUE, data |-> PushSegments(points, 1, <<>>)]

\* Content values of the model (canvas coordinates are whole numbers).
RectA == [kind |-> "Rectangle", x |-> Fx(0), y |-> Fx(0),
          width |-> Fx(100), height |-> Fx(100)]

CircleA == [kind |-> "Circle", center |-> Vec2(Fx(30), Fx(40)), radius |-> Fx(5)]

SegmentA == [kind |-> "Segment",
             data |-> [start |-> Vec2(Fx(0), Fx(0)), end |-> Vec2(Fx(100), Fx(100))]]

PiecewiseA ==
    [kind |-> "PiecewiseSegment",
     data |-> PiecewiseSegment_new(
                  <<Vec2(Fx(0), Fx(0)), Vec2(Fx(10), Fx(20)), Vec2(Fx(30), Fx(-10))>>).data]

\* An Image whose source load gives `load` in this frame:
\* "Ready" (a texture of the given size), "Pending", or "Error".
ImageOf(load) == [kind |-> "Image", load |-> load, size |-> Vec2(Fx(64), Fx(32))]

ContentLists ==
    { <<RectA, ImageOf("Error"), CircleA>>,
      <<ImageOf("Pending"), ImageOf("Ready"), PiecewiseA>> }

Min(a, b) == IF a <= b THEN a ELSE b

Max(a, b) == IF a >= b THEN a ELSE b

\* Rectangle::show (label drawing and the discarded click response left out).
Rectangle_show(c, clip_min, st) ==
    LET a == ToScreen(clip_min, Vec2(c.x, c.y), st)
        b == ToScreen(clip_min, Vec2(c.x + c.width, c.y + c.height), st)
    IN [err |-> FALSE,
        prims |-> << [prim |-> "rect", of |-> c.kind,
                      min |-> Vec2(Min(a.x, b.x), Min(a.y, b.y)),
                      max |-> Vec2(Max(a.x, b.x), Max(a.y, b.y))] >>]

\* Circle::show
Circle_show(c, clip_min, st) ==
    [err |-> FALSE,
     prims |-> << [prim |-> "circle", of |-> c.kind,
                   center |-> ToScreen(clip_min, c.center, st),
                   radius |-> Mul(c.radius, st.current_scale)] >>]

\* Segment::show with both accents None
Segment_show(c, clip_min, st) ==
    [err |-> FALSE,
     prims |-> << [prim |-> "line", of |-> c.kind,
                   start |-> ToScreen(clip_min, c.data.start, st),
                   end |-> ToScreen(clip_min, c.data.end, st)] >>]

\* PiecewiseSegment::show: one line per SegmentData
PiecewiseSegment_show(c, clip_min, st) ==
    [err |-> FALSE,
     prims |-> [i \in 1..Len(c.data) |->
                   [prim |-> "line", of |-> c.kind,
                    start |-> ToScreen(clip_min, c.data[i].start, st),
                    end |-> ToScreen(clip_min, c.data[i].end, st)]]]

\* An Image::show that paints nothing on a load error and returns Ok.
Image_show_swallow(c, clip_min, st) ==
    IF c.load = "Ready"
    THEN [err |-> FALSE,
          prims |-> << [prim |-> "image", of |-> c.kind,
                        min |-> VAdd(clip_min,
                                     VAdd(VScale(Vec2(0, 0), st.current_scale), st.shift)),
                        size |-> VScale(c.size, st.current_scale)] >>]
    ELSE [err |-> FALSE, prims |-> <<>>]

\* Image::show: `load(..)?` returns the error; Ready paints; Pending paints nothing.
Image_show(c, clip_min, st) ==
    IF c.load = "Error" THEN [err |-> TRUE, prims |-> <<>>]
    ELSE IF c.load = "Ready"
    THEN [err |-> FALSE,
          prims |-> << [prim |-> "image", of |-> c.kind,
                        min |-> VAdd(clip_min,
                                     VAdd(VScale(Vec2(0, 0), st.current_scale), st.shift)),
                        size |-> VScale(c.size, st.current_scale)] >>]
    ELSE [err |-> FALSE, prims |-> <<>>]

Show(c, clip_min, st) ==
    CASE c.kind = "Rectangle" -> Rectangle_show(c, clip_min, st)
      [] c.kind = "Image" -> Image_show(c, clip_min, st)
      [] c.kind = "Segment" -> Segment_show(c, clip_min, st)
      [] c.kind = "PiecewiseSegment" -> PiecewiseSegment_show(c, clip_min, st)
      [] c.kind = "Circle" -> Circle_show(c, clip_min, st)

\* The draw loop of show_body: `for content in contents { .. show(..)?; }`.
\* Returns whether a show failed, what was painted (each painter call with
\* the index of the content that made it), and how many contents were
\* shown without failing.
RECURSIVE DrawLoop(_, _, _, _, _)
DrawLoop(contents, i, clip_min, st, drawn) ==
    IF i > Len(contents)
    THEN [err |-> FALSE, drawn |-> drawn, shown |-> Len(contents)]
    ELSE LET r == Show(contents[i], clip_min, st)
         IN IF r.err
            THEN [err |-> TRUE, drawn |-> drawn, shown |-> i - 1]
            ELSE DrawLoop(contents, i + 1, clip_min, st,
                          drawn \o [j \in 1..Len(r.prims) |-> [idx |-> i, p |-> r.prims[j]]])

\* ------------------------------------------------------- viewport updates
\* Layout: where the host UI puts the canvas area of each identity.  The
\* painter's clip rect is the area's rect (allocate_painter), so
\* painter.clip_rect().min and response.rect.min are this point.
AreaMin(id) == IF id = 1 THEN Vec2(Fx(0), Fx(0)) ELSE Vec2(Fx(8), Fx(30))

\* response.dragged_by(PointerButton::Middle)
dragged_by_middle(inp) == inp.drag = "Middle"

\* response.drag_delta(): the pointer delta while the area is dragged, else zero.
drag_delta(inp) == IF inp.drag # "None" THEN inp.pointer_delta ELSE Vec2(0, 0)

\* A pan applied under a drag held by any button.
Pan_any_button(st, inp) ==
    IF inp.drag # "None"
    THEN [st EXCEPT !.shift = VAdd(@, drag_delta(inp))]
    ELSE st

\* if response.dragged_by(Middle) { state.shift += response.drag_delta(); }
Pan(st, inp) ==
    IF dragged_by_middle(inp)
    THEN [st EXCEPT !.shift = VAdd(@, drag_delta(inp))]
    ELSE st

\* state.shift += egui::vec2(dx, dy) * SCROLL_SPEED;
Scroll(st, inp) ==
    [st EXCEPT !.shift = VAdd(@, VScale(inp.raw_scroll_delta, Fx(SCROLL_SPEED)))]

\* A zoom that scales the shift without anchoring it at the pointer.
Zoom_unanchored(st, inp, pos) ==
    LET scale == Mul(inp.zoom_delta, Fx(ZOOM_SPEED))
    IN [st EXCEPT !.current_scale = Mul(@, scale),
                  !.shift = VScale(@, scale)]

\* let scale = input.zoom_delta() * ZOOM_SPEED; let pos = hover_pos;
\* state.current_scale *= scale;
\* state.shift = state.shift * scale + vec2(-scale * pos.x + pos.x, -scale * pos.y + pos.y);
Zoom(st, inp, pos) ==
    LET scale == Mul(inp.zoom_delta, Fx(ZOOM_SPEED))
    IN [st EXCEPT !.current_scale = Mul(@, scale),
                  !.shift = VAdd(VScale(@, scale),
                                 Vec2(Mul(-scale, pos.x) + pos.x,
                                      Mul(-scale, pos.y) + pos.y))]

\* Whether the products of Zoom lie on the grid.
ZoomExact(st, inp, pos) ==
    LET scale == Mul(inp.zoom_delta, Fx(ZOOM_SPEED))
    IN /\ Exact(st.current_scale, scale)
       /\ Exact(st.shift.x, scale) /\ Exact(st.shift.y, scale)
       /\ Exact(scale, pos.x) /\ Exact(scale, pos.y)

\* The hover branch with the zoom applied before the scroll.
UpdatesHover_zoom_first(panned, hover_pos, inp) ==
    LET zoomed == Zoom(panned, inp, hover_pos)
    IN [scrolled |-> panned,
        checked |-> Scroll(zoomed, inp),
        exact |-> ZoomExact(panned, inp, hover_pos)]

\* The hover branch of show_body: scroll, then zoom, on the panned state.
\* `scrolled` is the state just before the zoom update, `checked` the state
\* is_valid is asked about.
UpdatesHover(panned, hover_pos, inp) ==
    LET scrolled == Scroll(panned, inp)
    IN [scrolled |-> scrolled,
        checked |-> Zoom(scrolled, inp, hover_pos),
        exact |-> ZoomExact(scrolled, inp, hover_pos)]

\* The steps of show_body after the draw loop, up to the validation: pan,
\* then, if let Some(hover_pos) = response.hover_pos(), with
\* hover_pos - response.rect.min, scroll and zoom.
Updates(st, rect_min, inp) ==
    LET panned == Pan(st, inp)
    IN IF inp.hover_pos.some
       THEN UpdatesHover(panned, VSub(inp.hover_pos.pos, rect_min), inp)
       ELSE [scrolled |-> panned, checked |-> panned, exact |-> TRUE]

\* A validation that replaces an invalid state by the default state.
Validate_reset_default(checked, old_state) ==
    IF ~is_valid(checked)
    THEN [Default EXCEPT !.origin = old_state.origin]
    ELSE checked

\* A validation that restores only the scale of an invalid state.
Validate_scale_only(checked, old_state) ==
    IF ~is_valid(checked)
    THEN [checked EXCEPT !.current_scale = old_state.current_scale]
    ELSE checked

\* if !state.is_valid() { *state = old_state; }
Validate(checked, old_state) == IF ~is_valid(checked) THEN old_state ELSE checked

\* The end of show_body: `.inner?` returns the draw loop's error before any
\* update; otherwise the updated state is validated against old_state.
Finish(old_state, draw, up) ==
    IF draw.err
    THEN [ok |-> FALSE, inner_state |-> old_state,
          drawn |-> draw.drawn, shown |-> draw.shown,
          scrolled |-> old_state, checked |-> old_state, exact |-> TRUE]
    ELSE [ok |-> TRUE, inner_state |-> Validate(up.checked, old_state),
          drawn |-> draw.drawn, shown |-> draw.shown,
          scrolled |-> up.scrolled, checked |-> up.checked, exact |-> up.exact]

\* A show_body that draws the contents with the state its updates reach.
show_body_draw_updated(st, clip_min, rect_min, contents, inp) ==
    CHOOSE r \in { Finish(st, draw, up) :
                      draw \in {DrawLoop(contents, 1, clip_min,
                                         Updates(st, rect_min, inp).checked, <<>>)},
                      up \in {Updates(st, rect_min, inp)} } : TRUE

\* VisCanvasState::show_body on the loaded state st (old_state is its clone).
\* The singleton sets bind the draw loop's and the updates' results once.
show_body(st, clip_min, rect_min, contents, inp) ==
    CHOOSE r \in { Finish(st, draw, up) :
                      draw \in {DrawLoop(contents, 1, clip_min, st, <<>>)},
                      up \in {Updates(st, rect_min, inp)} } : TRUE

\* ------------------------------------------------------------------ state
VARIABLES
    persisted,  \* egui's persisted data: identity -> Option<VisCanvasStateInner>
    nframes,    \* vis_canvas calls made so far
    frame,      \* the last vis_canvas call: its arguments and inputs, the persisted
                \* data before it, the states of its steps, its result
    s2c,        \* the caller's last screen_to_canvas call on the returned state
    fnIn,       \* argument of a function applied on its own (SpecFn)
    fnOut       \* its result

vars == <<persisted, nframes, frame, s2c, fnIn, fnOut>>

None == [some |-> FALSE]

Some(v) == [some |-> TRUE, v |-> v]

\* A load that keeps the persisted origin.
load_sticky_origin(data, id, origin) ==
    IF data[id].some THEN data[id].v ELSE [Default EXCEPT !.origin = origin]

\* VisCanvasState::load: get_persisted(id).unwrap_or_default(), then the
\* origin argument overwrites the origin field.
load(data, id, origin) ==
    LET inner == IF data[id].some THEN data[id].v ELSE Default
    IN [inner EXCEPT !.origin = origin]

\* A store under one key shared by every identity.
store_shared(data, id, inner_state) == [i \in Ids |-> Some(inner_state)]

\* VisCanvasState::store: insert_persisted(self.id, inner_state.clone())
store(data, id, inner_state) == [data EXCEPT ![id] = Some(inner_state)]

\* ----------------------------------------------------------------- inputs
DragKinds == {"None", "Middle", "Primary"}

\* The pointer's movement in a frame (response.drag_delta() while dragged).
PointerDelta == Vec2(Fx(99995), Fx(-8))

\* Pointer positions relative to the area's min corner.
HoverOffsets == {Vec2(Fx(50), Fx(20))}

ScrollDeltas == {Vec2(0, 0), Vec2(Fx(10), Fx(-5))}

ZoomDeltas == {0, Unit \div 2, Fx(1), Fx(4)}

\* Scroll and zoom input of a frame in which the pointer is not over the
\* area (show_body reads neither then): one choice, both non-trivial.
UnhoveredScroll == Vec2(Fx(10), Fx(-5))

UnhoveredZoom == Fx(4)

HoverPositions(id) == {[some |-> TRUE, pos |-> VAdd(AreaMin(id), o)] : o \in HoverOffsets}

\* The inputs of a frame: the pointer over the area with no drag or a
\* middle-button drag, any scroll and zoom; over the area with a drag held
\* by another button (show_body tests only dragged_by(Middle)), any scroll,
\* no zoom; and not over the area, any drag.
Inputs(id) ==
    [drag : {"None", "Middle"}, pointer_delta : {PointerDelta},
     hover_pos : HoverPositions(id),
     raw_scroll_delta : ScrollDeltas, zoom_delta : ZoomDeltas]
    \cup
    [drag : {"Primary"}, pointer_delta : {PointerDelta},
     hover_pos : HoverPositions(id),
     raw_scroll_delta : ScrollDeltas, zoom_delta : {Fx(1)}]
    \cup
    [drag : DragKinds, pointer_delta : {PointerDelta}, hover_pos : {None},
     raw_scroll_delta : {UnhoveredScroll}, zoom_delta : {UnhoveredZoom}]

NoCall == [called |-> FALSE]

NoFn == [op |-> "none"]

NoFrame ==
    [id |-> 0, origin |-> "TopLeft", contents |-> <<>>, inp |-> None, before |-> [i \in Ids |-> None],
     loaded |-> Default, scrolled |-> Default, checked |-> Default,
     ok |-> FALSE, state |-> Default, drawn |-> <<>>, shown |-> 0]

Init ==
    /\ persisted = [i \in Ids |-> None]
    /\ nframes = 0
    /\ frame = NoFrame
    /\ s2c = NoCall
    /\ fnIn = NoFn
    /\ fnOut = NoFn

\* ---------------------------------------------------------------- actions
\* One frame: vis_canvas(ui, id, origin, contents) under the inputs inp.
\* On Err the `?` returns before store, and no state is returned.
\* screen_to_canvas takes &self and changes nothing, so the caller's query
\* (ScreenToCanvas) is taken as the last step of a run.
vis_canvas(id, origin, contents, inp) ==
    /\ nframes < MaxFrames
    /\ ~s2c.called
    /\ \E state \in {load(persisted, id, origin)} :
       \E r \in {show_body(state, AreaMin(id), AreaMin(id), contents, inp)} :
       /\ r.exact
       /\ persisted' = IF r.ok THEN store(persisted, id, r.inner_state) ELSE persisted
       /\ nframes' = nframes + 1
       /\ frame' = [id |-> id, origin |-> origin, contents |-> contents, inp |-> inp,
                    before |-> persisted, loaded |-> state,
                    scrolled |-> r.scrolled, checked |-> r.checked,
                    ok |-> r.ok, state |-> r.inner_state,
                    drawn |-> r.drawn, shown |-> r.shown]
       /\ s2c' = NoCall
       /\ UNCHANGED <<fnIn, fnOut>>

\* The caller maps a screen position through the state vis_canvas returned.
ScreenPositions == {VAdd(AreaMin(i), o) : i \in Ids, o \in HoverOffsets}

ScreenToCanvas(screen_pos) ==
    /\ nframes > 0
    /\ frame.ok
    /\ ~s2c.called
    /\ s2c' = [called |-> TRUE, screen_pos |-> screen_pos,
               result |-> screen_to_canvas(frame.state, screen_pos)]
    /\ UNCHANGED <<persisted, nframes, frame, fnIn, fnOut>>

Next ==
    \/ \E id \in Ids, origin \in Origins, contents \in ContentLists :
          \E inp \in Inputs(id) : vis_canvas(id, origin, contents, inp)
    \/ \E screen_pos \in ScreenPositions : ScreenToCanvas(screen_pos)

Spec == Init /\ [][Next]_vars

\* ------------------------------------------- functions applied on their own
Points == {Vec2(Fx(0), Fx(0)), Vec2(Fx(10), Fx(20)), Vec2(Fx(30), Fx(-10))}

RECURSIVE SeqsUpTo(_, _)
SeqsUpTo(S, n) ==
    IF n = 0 THEN {<<>>}
    ELSE LET shorter == SeqsUpTo(S, n - 1)
         IN shorter \cup {Append(q, x) : q \in {r \in shorter : Len(r) = n - 1}, x \in S}

\* Viewport states for the transform: scales 0, 1/2, 1, 4.
ViewStates ==
    [origin : Origins,
     current_scale : {0, Unit \div 2, Fx(1), Fx(4)},
     shift : {Vec2(0, 0), Vec2(Fx(-150), Fx(35))}]

FnInputs ==
    {[op |-> "new", points |-> pts] : pts \in SeqsUpTo(Points, MaxPts)}
    \cup
    {[op |-> "round_trip", st |-> st, clip_min |-> AreaMin(i), p |-> p] :
        st \in ViewStates, i \in Ids, p \in Points}

InitFn ==
    /\ persisted = [i \in Ids |-> None]
    /\ nframes = 0
    /\ frame = NoFrame
    /\ s2c = NoCall
    /\ fnIn \in FnInputs
    /\ fnOut = NoFn

\* PiecewiseSegment::new(points)
New ==
    /\ fnIn.op = "new"
    /\ fnOut.op = "none"
    /\ fnOut' = [op |-> "new", out |-> PiecewiseSegment_new(fnIn.points)]
    /\ UNCHANGED <<persisted, nframes, frame, s2c, fnIn>>

\* A canvas point through the forward transform of the show methods and
\* back through screen_to_canvas, with the same state.
RoundTrip ==
    /\ fnIn.op = "round_trip"
    /\ fnOut.op = "none"
    /\ \E screen \in {ToScreen(fnIn.clip_min, fnIn.p, fnIn.st)} :
          fnOut' = [op |-> "round_trip", screen |-> screen,
                    back |-> screen_to_canvas(fnIn.st, screen)]
    /\ UNCHANGED <<persisted, nframes, frame, s2c, fnIn>>

NextFn == New \/ RoundTrip

SpecFn == InitFn /\ [][NextFn]_vars

\* ================================================================= claims
\* The bounds of a ViewportState as the specification states them.
InBounds(st) ==
    /\ 0 <= st.current_scale /\ st.current_scale <= 10 * Unit
    /\ -100000 * Unit <= st.shift.x /\ st.shift.x <= 100000 * Unit
    /\ -100000 * Unit <= st.shift.y /\ st.shift.y <= 100000 * Unit

Called == nframes > 0

Hovered == Called /\ frame.inp.hover_pos.some

\* C1 (validation atomicity): when the state reached by this frame's pan,
\* scroll and zoom is out of bounds, the state returned and persisted at the
\* end of the frame is the snapshot taken at its start, in every field.
ValidationAtomicity ==
    (Called /\ frame.ok /\ ~InBounds(frame.checked)) =>
        /\ frame.state = frame.loaded
        /\ persisted[frame.id] = Some(frame.loaded)

\* A second frame whose pan and scroll alone stay in bounds and whose zoom
\* leaves them, from a persisted state that is not the default.
ValidationAtomicityWitness ==
    /\ Called /\ frame.ok
    /\ ~InBounds(frame.checked) /\ InBounds(frame.scrolled)
    /\ frame.scrolled # frame.loaded
    /\ frame.before[frame.id].some
    /\ frame.loaded.shift # Default.shift
    /\ frame.state = frame.loaded

\* C2 (viewport bounds): every persisted state and every state vis_canvas
\* returns has 0 <= scale <= 10 and -100000 <= shift.x, shift.y <= 100000.
ViewportBounds ==
    /\ \A i \in Ids : persisted[i].some => InBounds(persisted[i].v)
    /\ (Called /\ frame.ok) => InBounds(frame.state)

\* A frame that was rolled back because the scale left [0, 10], with a
\* persisted state at scale 4.
ViewportBoundsWitness ==
    /\ Called /\ frame.ok
    /\ frame.checked.current_scale > 10 * Unit
    /\ persisted[frame.id].some
    /\ persisted[frame.id].v.current_scale = 4 * Unit

\* Index of the first Image of the list whose load fails, 0 if there is none.
FirstFailing(contents) ==
    LET F == {i \in 1..Len(contents) :
                contents[i].kind = "Image" /\ contents[i].load = "Error"}
    IN IF F = {} THEN 0 ELSE CHOOSE i \in F : \A j \in F : i <= j

\* Same scale and shift.
SameView(a, b) == a.current_scale = b.current_scale /\ a.shift = b.shift

\* C3 (image-load failure): a frame whose content list has an Image whose
\* load fails returns an error, paints nothing of the failing Image or of
\* the contents after it, applies no update and skips the store, so the
\* persisted data is what it was before the call; the next frame for that
\* identity loads the scale and shift the failing frame had loaded.
ImageLoadFailure ==
    [][ nframes' = nframes + 1 =>
          /\ FirstFailing(frame'.contents) > 0 =>
                /\ ~frame'.ok
                /\ persisted' = persisted
                /\ frame'.state = frame'.loaded
                /\ frame'.shown = FirstFailing(frame'.contents) - 1
                /\ \A j \in DOMAIN frame'.drawn :
                      frame'.drawn[j].idx < FirstFailing(frame'.contents)
          /\ (Called /\ ~frame.ok /\ frame'.id = frame.id) =>
                SameView(frame'.loaded, frame.loaded)
      ]_vars

\* A failing second frame: the pointer hovers with a middle drag and a zoom,
\* a content was painted before the failing Image, and the persisted state
\* before the call, not the default, is still the persisted state.
ImageLoadFailureWitness ==
    /\ nframes = 2 /\ ~frame.ok
    /\ FirstFailing(frame.contents) = 2
    /\ Len(frame.drawn) = 1
    /\ frame.inp.hover_pos.some /\ frame.inp.drag = "Middle"
    /\ frame.inp.zoom_delta = 4 * Unit
    /\ frame.before[frame.id].some
    /\ ~SameView(frame.before[frame.id].v, Default)
    /\ persisted = frame.before

\* C7 (origin is re-supplied): the state a call renders with and the state
\* it returns carry the origin argument of that call, whatever origin is
\* persisted, and loading leaves the persisted scale and shift as they are.
OriginResupplied ==
    Called =>
        /\ frame.loaded.origin = frame.origin
        /\ frame.ok => frame.state.origin = frame.origin
        /\ frame.ok => persisted[frame.id].v.origin = frame.origin
        /\ frame.before[frame.id].some =>
              SameView(frame.loaded, frame.before[frame.id].v)

\* A call with BottomLeft on an identity persisted with TopLeft at a scale
\* and shift that are not the default's.
OriginResuppliedWitness ==
    /\ Called /\ frame.ok
    /\ frame.before[frame.id].some
    /\ frame.before[frame.id].v.origin = "TopLeft"
    /\ frame.origin = "BottomLeft"
    /\ frame.before[frame.id].v.current_scale = 4 * Unit
    /\ frame.before[frame.id].v.shift # [x |-> 0, y |-> 0]
    /\ frame.state.origin = "BottomLeft"

\* C9 (per-identity state): a call for an identity with no persisted entry
\* starts from scale 1 and shift (0, 0) whatever is persisted for the other
\* identities, and a call never changes the persisted state of another
\* identity.
PerIdentityState ==
    Called =>
        /\ ~frame.before[frame.id].some =>
              /\ frame.loaded.current_scale = 1 * Unit
              /\ frame.loaded.shift = [x |-> 0, y |-> 0]
        /\ \A b \in Ids \ {frame.id} : persisted[b] = frame.before[b]

\* The first call for identity 2, updating it, while identity 1 is persisted
\* with a scale and shift that are not the default's.
PerIdentityStateWitness ==
    /\ Called /\ frame.ok /\ frame.id = 2
    /\ ~frame.before[2].some
    /\ persisted[1].some /\ persisted[1].v.current_scale = 4 * Unit
    /\ persisted[1].v.shift # [x |-> 0, y |-> 0]
    /\ persisted[2].some /\ ~SameView(persisted[2].v, persisted[1].v)
    /\ ~SameView(persisted[2].v, Default)

\* The hover position of the last frame relative to the area's min corner.
RelHover == VSub(frame.inp.hover_pos.pos, AreaMin(frame.id))

\* The canvas point under the area-relative position pos: (pos - shift) / scaleVector.
CanvasUnder(pos, st) == DivByScaleVec(VSub(pos, st.shift), st)

\* C5 as stated (zoom anchoring for every zoom delta): the canvas point under
\* the hover position is the same just before and just after the zoom update.
ZoomAnchoringAnyDelta ==
    (Hovered /\ frame.ok) =>
        FVecEq(CanvasUnder(RelHover, frame.scrolled), CanvasUnder(RelHover, frame.checked))

\* C5 amended (zoom anchoring): when the scale just before the zoom update
\* and the zoom delta are both non-zero, the canvas point under the hover
\* position is the same just before and just after the zoom update.
ZoomAnchoring ==
    (Hovered /\ frame.ok /\ frame.scrolled.current_scale # 0 /\ frame.inp.zoom_delta # 0) =>
        FVecEq(CanvasUnder(RelHover, frame.scrolled), CanvasUnder(RelHover, frame.checked))

\* A zoom by 1/2 under BottomLeft from a scale and shift that are not the
\* default's, after a scroll, with the pointer over a canvas point off both axes.
ZoomAnchoringWitness ==
    /\ Hovered /\ frame.ok
    /\ frame.origin = "BottomLeft"
    /\ frame.inp.zoom_delta = Unit \div 2
    /\ frame.scrolled.current_scale = 4 * Unit
    /\ frame.inp.raw_scroll_delta # [x |-> 0, y |-> 0]
    /\ frame.checked.shift # frame.scrolled.shift
    /\ CanvasUnder(RelHover, frame.checked).x.k = "num"
    /\ CanvasUnder(RelHover, frame.checked).x.n # 0
    /\ CanvasUnder(RelHover, frame.checked).y.n # 0

\* The pan of the last frame: the pointer's delta under a middle-button drag.
AppliedDrag ==
    IF frame.inp.drag = "Middle" THEN frame.inp.pointer_delta ELSE [x |-> 0, y |-> 0]

\* The example of C6: from scale 1 and shift (0, 0), hovering at (50, 50)
\* with zoom delta 2 and no drag or scroll, the updates give scale 2 and
\* shift (-50, -50).
UpdateOrderExample ==
    Updates([origin |-> "TopLeft", current_scale |-> 1 * Unit, shift |-> [x |-> 0, y |-> 0]],
            AreaMin(2),
            [drag |-> "None", pointer_delta |-> [x |-> 0, y |-> 0],
             hover_pos |-> [some |-> TRUE,
                            pos |-> [x |-> AreaMin(2).x + 50 * Unit, y |-> AreaMin(2).y + 50 * Unit]],
             raw_scroll_delta |-> [x |-> 0, y |-> 0], zoom_delta |-> 2 * Unit]).checked
    = [origin |-> "TopLeft", current_scale |-> 2 * Unit,
       shift |-> [x |-> -50 * Unit, y |-> -50 * Unit]]

\* C6 (update order): in a hovered frame with middle-button drag delta g,
\* scroll delta s, zoom delta d and hover position pos, from (scale0, shift0),
\* the state validation checks has scale = scale0 * d and
\* shift = (shift0 + g + s) * d + pos * (1 - d).
UpdateOrder ==
    /\ UpdateOrderExample
    /\ (Hovered /\ frame.ok) =>
          LET d == frame.inp.zoom_delta
              g == AppliedDrag
              sc == frame.inp.raw_scroll_delta
              s0 == frame.loaded
          IN /\ frame.checked.current_scale * Unit = s0.current_scale * d
             /\ frame.checked.shift.x * Unit
                  = (s0.shift.x + g.x + sc.x) * d + RelHover.x * (Unit - d)
             /\ frame.checked.shift.y * Unit
                  = (s0.shift.y + g.y + sc.y) * d + RelHover.y * (Unit - d)

\* A hovered frame with a middle-button drag, a scroll and a zoom by 1/2,
\* from a persisted shift that is not (0, 0), whose result is kept.
UpdateOrderWitness ==
    /\ Hovered /\ frame.ok
    /\ frame.inp.drag = "Middle"
    /\ frame.inp.raw_scroll_delta # [x |-> 0, y |-> 0]
    /\ frame.inp.zoom_delta = Unit \div 2
    /\ frame.loaded.shift # [x |-> 0, y |-> 0]
    /\ frame.state = frame.checked
    /\ frame.state # frame.loaded

\* C10 (scale zero is permitted): a hovered frame with zoom delta 0 ends at
\* scale 0, is not rolled back, and its state is returned and persisted;
\* screen_to_canvas on a returned state of scale 0 fails its assertion.
ScaleZeroPermitted ==
    /\ (Hovered /\ frame.ok /\ frame.inp.zoom_delta = 0) =>
          /\ frame.checked.current_scale = 0
          /\ frame.state = frame.checked
          /\ persisted[frame.id] = Some(frame.checked)
    /\ (s2c.called /\ frame.state.current_scale = 0) => s2c.result.panic

\* screen_to_canvas was called, and failed, on the state returned by a frame
\* that took the scale from a non-zero value to 0.
ScaleZeroPermittedWitness ==
    /\ Hovered /\ frame.ok /\ frame.inp.zoom_delta = 0
    /\ frame.loaded.current_scale # 0
    /\ frame.state.current_scale = 0
    /\ persisted[frame.id].v.current_scale = 0
    /\ s2c.called /\ s2c.result.panic

\* C4 as stated (transform round trip): for a state of scale > 0, a canvas
\* point sent through the forward transform of the show methods and then
\* through screen_to_canvas comes back as itself.
TransformRoundTrip ==
    (fnOut.op = "round_trip" /\ fnIn.st.current_scale > 0) =>
        /\ ~fnOut.back.panic
        /\ FVecEq(fnOut.back.pos, FVec(fnIn.p))

\* C8 (PiecewiseSegment construction): new gives no value for fewer than 2
\* points; for n >= 2 points it gives exactly n - 1 segments, segment i from
\* point i to point i + 1.
PiecewiseConstruction ==
    fnOut.op = "new" =>
        LET n == Len(fnIn.points)
        IN /\ n < 2 => ~fnOut.out.some
           /\ n >= 2 =>
                 /\ fnOut.out.some
                 /\ Len(fnOut.out.data) = n - 1
                 /\ \A i \in 1..(n - 1) :
                       /\ fnOut.out.data[i].start = fnIn.points[i]
                       /\ fnOut.out.data[i].end = fnIn.points[i + 1]

\* new applied to four points, not all the same.
PiecewiseConstructionWitness ==
    /\ fnOut.op = "new"
    /\ Len(fnIn.points) = 4
    /\ fnIn.points[1] # fnIn.points[2] /\ fnIn.points[3] # fnIn.points[4]
    /\ fnOut.out.some /\ Len(fnOut.out.data) = 3

\* C11 as stated (input gating): a frame with no hover and no middle-button
\* drag leaves the state unchanged, and a hovered frame with zoom delta 1 and
\* no middle-button drag changes the shift by exactly the raw scroll delta
\* and leaves the scale unchanged.
InputGatingReturned ==
    /\ (Called /\ frame.ok /\ ~frame.inp.hover_pos.some /\ frame.inp.drag # "Middle") =>
          frame.state = frame.loaded
    /\ (Hovered /\ frame.ok /\ frame.inp.zoom_delta = Unit /\ frame.inp.drag # "Middle") =>
          /\ frame.state.current_scale = frame.loaded.current_scale
          /\ frame.state.shift = VAdd(frame.loaded.shift, frame.inp.raw_scroll_delta)

\* C11 amended (input gating): a frame with no hover applies no scroll and no
\* zoom, and only a middle-button drag moves the shift; a hovered frame with
\* zoom delta 1 and no middle-button drag leaves validation a state whose
\* shift is the loaded shift plus the raw scroll delta and whose scale is
\* unchanged, and that state is returned when it is in bounds, the loaded
\* state otherwise.
InputGating ==
    /\ (Called /\ frame.ok /\ ~frame.inp.hover_pos.some) =>
          /\ frame.checked = [frame.loaded EXCEPT !.shift = VAdd(@, AppliedDrag)]
          /\ frame.inp.drag # "Middle" =>
                /\ frame.state = frame.loaded
                /\ persisted[frame.id] = Some(frame.loaded)
    /\ (Hovered /\ frame.ok /\ frame.inp.zoom_delta = Unit /\ frame.inp.drag # "Middle") =>
          /\ frame.checked.current_scale = frame.loaded.current_scale
          /\ frame.checked.shift = VAdd(frame.loaded.shift, frame.inp.raw_scroll_delta)
          /\ frame.state = IF InBounds(frame.checked) THEN frame.checked ELSE frame.loaded

\* A hovered frame under a drag held by the primary button, with zoom delta 1,
\* whose scroll of (10, -5) moved a shift that was not (0, 0) by (10, -5).
InputGatingWitness ==
    /\ Hovered /\ frame.ok
    /\ frame.inp.drag = "Primary" /\ frame.inp.zoom_delta = Unit
    /\ frame.inp.raw_scroll_delta = [x |-> 10 * Unit, y |-> -5 * Unit]
    /\ frame.loaded.shift # [x |-> 0, y |-> 0]
    /\ frame.state.shift = VAdd(frame.loaded.shift, [x |-> 10 * Unit, y |-> -5 * Unit])
    /\ frame.state.current_scale = frame.loaded.current_scale

\* The state a call for identity id with the given origin starts from, read
\* off the persisted data.
StartState(data, id, origin) ==
    [origin |-> origin,
     current_scale |-> IF data[id].some THEN data[id].v.current_scale ELSE 1 * Unit,
     shift |-> IF data[id].some THEN data[id].v.shift ELSE [x |-> 0, y |-> 0]]

\* What the contents paint when all of them are drawn with the state st.
Painted(contents, id, st) == DrawLoop(contents, 1, AreaMin(id), st, <<>>).drawn

\* C12 (render before interact): every frame paints its contents with the
\* state persisted before the call under the call's origin, which after a
\* successful frame for the same identity is the state that frame returned;
\* the state a successful frame returns is its validated update and is what
\* is persisted for the next frame.
RenderBeforeInteract ==
    [][nframes' = nframes + 1 =>
         LET start == StartState(persisted, frame'.id, frame'.origin)
         IN /\ frame'.drawn = Painted(frame'.contents, frame'.id, start)
            /\ (Called /\ frame.ok /\ frame.id = frame'.id) =>
                  start = [frame.state EXCEPT !.origin = frame'.origin]
            /\ frame'.ok =>
                  /\ frame'.state = IF InBounds(frame'.checked) THEN frame'.checked ELSE start
                  /\ persisted'[frame'.id] = Some(frame'.state)]_vars

\* A second frame for an identity, started from a state that is not the
\* default's, whose returned state differs from the one it painted with, and
\* whose painting differs from what the returned state would have painted.
RenderBeforeInteractWitness ==
    /\ Called /\ frame.ok
    /\ frame.before[frame.id].some
    /\ frame.loaded.shift # [x |-> 0, y |-> 0]
    /\ frame.loaded.current_scale # Unit
    /\ frame.state # frame.loaded
    /\ frame.state = frame.checked
    /\ frame.drawn # <<>>
    /\ frame.drawn = Painted(frame.contents, frame.id, frame.loaded)
    /\ frame.drawn # Painted(frame.contents, frame.id, frame.state)

\* C13 (scale zero is absorbing): once the persisted scale of an identity is
\* 0 it stays 0 through every later step, and every frame for that identity
\* reaches, returns and persists a state of scale 0.
ScaleZeroAbsorbing ==
    [][/\ \A i \in Ids :
             (persisted[i].some /\ persisted[i].v.current_scale = 0) =>
                 (persisted'[i].some /\ persisted'[i].v.current_scale = 0)
       /\ (/\ nframes' = nframes + 1
           /\ persisted[frame'.id].some
           /\ persisted[frame'.id].v.current_scale = 0) =>
                 /\ frame'.loaded.current_scale = 0
                 /\ frame'.checked.current_scale = 0
                 /\ frame'.state.current_scale = 0]_vars

\* A hovered frame with zoom delta 4 and a scroll, for an identity whose
\* persisted scale was 0: its update is kept, moves the shift, and the scale
\* is 0 again.
ScaleZeroAbsorbingWitness ==
    /\ Hovered /\ frame.ok
    /\ frame.before[frame.id].some
    /\ frame.before[frame.id].v.current_scale = 0
    /\ frame.inp.zoom_delta = 4 * Unit
    /\ frame.inp.raw_scroll_delta # [x |-> 0, y |-> 0]
    /\ frame.state = frame.checked
    /\ frame.state.shift # frame.loaded.shift
    /\ persisted[frame.id].v.current_scale = 0

====
